---- MODULE Spec2Model ----
(***************************************************************************)
(* A model of the nes ("New Error System") macro library, src/src/lib.rs,  *)
(* and of the two programs under src/examples.                             *)
(*                                                                         *)
(* Text is a sequence of tokens (each token a piece of text), so that a    *)
(* rendering is something that can be compared piece by piece.  Every      *)
(* program value is a record with a kind field k.                          *)
(***************************************************************************)
EXTENDS Integers, Sequences, FiniteSets, TLC

\* ------------------------------------------------------------------ bounds
\* How many times a result may be handed up the call chain (wrap/convert).
MaxDepth == 2
\* How many messages the channel of the guard harness may hold.
MaxQueue == 1

\* ------------------------------------------------------------------ values
UnitV == [k |-> "unit"]
NoVal == [k |-> "none"]
StrV(s) == [k |-> "str", s |-> s]
\* std::io::Error, identified by its os error code (as a token)
IoV(code) == [k |-> "io", code |-> code]
\* Box::new(v): one layer of indirection around v
BoxV(v) == [k |-> "box", v |-> v]
Unbox(b) == b.v
Ok(v) == [k |-> "Ok", v |-> v]
Err(e) == [k |-> "Err", v |-> e]

\* ErrorInfo::new
ErrorInfo_new(file, line, col) ==
    [k |-> "info", file |-> file, line |-> line, col |-> col]

\* A call site: what module_path!(), file!(), line!(), column!() expand to
\* at the outermost macro invocation.
Site(module, file, line, col) ==
    [module |-> module, file |-> file, line |-> line, col |-> col]

\* error_info!()
error_info(site) ==
    ErrorInfo_new(<<site.module, "/", site.file>>, site.line, site.col)

\* A value of a type declared with define_error!: the variant constructor
\* applied to the ErrorInfo and the declared fields.
ErrV(type, var, info, fields) ==
    [k |-> "err", type |-> type, var |-> var, info |-> info, fields |-> fields]

\* ----------------------------------------------------------- declarations
\* Types are token sequences: <<"String">>, <<"Box", "ReadFileError">>.
TString == <<"String">>
TBox(t) == <<"Box">> \o t
TIo == <<"std::io::Error">>

\* Pieces of a format string.
Lit(s) == [p |-> "lit", s |-> s, i |-> 0]
Next_ == [p |-> "next", s |-> <<>>, i |-> 0]      \* {}
NextDbg == [p |-> "nextdbg", s |-> <<>>, i |-> 0] \* {:?}
Idx(i) == [p |-> "idx", s |-> <<>>, i |-> i]      \* {i}

Field(name, type) == [name |-> name, type |-> type]
Variant(name, fields, message) ==
    [name |-> name, fields |-> fields, message |-> message]

\* The define_error! declarations of the examples, with the variants the
\* library's own documentation uses besides them: CommonError::CanNotReadFile
\* (the explicit form of impl_from_error!), Error::BrockenChannel (the
\* default of channel_send!), Error::HandlerThreadCrash and a second type
\* with the default variants, handler::Error (create_err!).
Decls ==
    [t \in {"ReadFileError", "CommonError", "Error", "HandlerError"} |->
       CASE t = "ReadFileError" ->
              << Variant("IOError", <<Field("io_error", TBox(TIo))>>,
                         <<Lit(<<"IO Error: ">>), Next_>>),
                 Variant("ReadFileError",
                         <<Field("io_error", TBox(TIo)), Field("file", TString)>>,
                         <<Lit(<<"Can not read file \"">>), Idx(2),
                           Lit(<<"\" : ">>), Idx(1)>>) >>
         [] t = "CommonError" ->
              << Variant("ReadFileError",
                         <<Field("read_file_error", TBox(<<"ReadFileError">>))>>,
                         <<Lit(<<"read file error ">>), Next_>>),
                 Variant("NoArguments", <<>>, <<Lit(<<"no arguments">>)>>),
                 Variant("IncorrectExtension",
                         <<Field("file_name", TString), Field("extension", TString)>>,
                         <<Lit(<<"Expected extension \"">>), Idx(2),
                           Lit(<<"\" for file \"">>), Idx(1), Lit(<<"\"">>)>>),
                 Variant("CanNotReadFile",
                         <<Field("read_file_error", TBox(<<"ReadFileError">>))>>,
                         <<Lit(<<"can not read file: ">>), Idx(1)>>) >>
         [] t = "Error" ->
              << Variant("Poisoned", <<>>, <<Lit(<<"poisoned">>)>>),
                 Variant("PoisonedWithArgs", <<Field("who", TString)>>,
                         <<Lit(<<"Mutex has been poisoned by thread \"">>), Next_,
                           Lit(<<"\"">>)>>),
                 Variant("BrockenChannel", <<>>, <<Lit(<<"brocken channel">>)>>),
                 Variant("HandlerThreadCrash",
                         <<Field("error", TBox(<<"Error">>)), Field("source", TString)>>,
                         <<Lit(<<"handler thread crash ">>), Idx(1),
                           Lit(<<" in ">>), Idx(2)>>) >>
         [] t = "HandlerError" ->
              << Variant("Poisoned", <<>>, <<Lit(<<"handler is poisoned">>)>>),
                 Variant("BrockenChannel", <<>>,
                         <<Lit(<<"channel of handler is brocken">>)>>) >> ]

TypeNames == DOMAIN Decls

\* A constructor path Type::Variant.
Path(type, var) == [type |-> type, var |-> var]
Paths ==
    { Path(t, Decls[t][i].name) : t \in {"ReadFileError"}, i \in 1..2 }
    \cup { Path(t, Decls[t][i].name) : t \in {"CommonError"}, i \in 1..4 }
    \cup { Path(t, Decls[t][i].name) : t \in {"Error"}, i \in 1..4 }
    \cup { Path(t, Decls[t][i].name) : t \in {"HandlerError"}, i \in 1..2 }

VariantDecl(type, var) ==
    LET vs == Decls[type]
        i == CHOOSE j \in 1..Len(vs) : vs[j].name = var
    IN vs[i]

\* ---------------------------------------------------------------- rendering
\* Display of a u32: its decimal digits.
Digit(d) ==
    CASE d = 0 -> "0" [] d = 1 -> "1" [] d = 2 -> "2" [] d = 3 -> "3"
      [] d = 4 -> "4" [] d = 5 -> "5" [] d = 6 -> "6" [] d = 7 -> "7"
      [] d = 8 -> "8" [] d = 9 -> "9"

RECURSIVE Dec(_)
Dec(n) == IF n < 10 THEN <<Digit(n)>> ELSE Dec(n \div 10) \o <<Digit(n % 10)>>

\* impl Display for ErrorInfo: "{} {}:{}"
ErrorInfo_fmt(ei) == ei.file \o <<" ">> \o Dec(ei.line) \o <<":">> \o Dec(ei.col)

\* Display and Debug of std::io::Error (the standard library's).
Io_display(code) ==
    IF code = "2" THEN <<"No such file or directory", " (os error ", code, ")">>
    ELSE <<"Permission denied", " (os error ", code, ")">>
Io_debug(code) ==
    <<"Os { code: ", code, ", kind: ">>
    \o (IF code = "2" THEN <<"NotFound">> ELSE <<"PermissionDenied">>)
    \o <<", message: \"">>
    \o (IF code = "2" THEN <<"No such file or directory">> ELSE <<"Permission denied">>)
    \o <<"\" }">>

RECURSIVE Display(_), Debug(_), Format(_, _, _, _)

\* write!(f, fmt, args...): literal pieces are copied; {} and {:?} take the
\* next argument of the implicit counter (which only implicit placeholders
\* advance); {i} takes argument i.  Arguments are numbered from 0; nxt is
\* the implicit counter, pos the piece being written.
Format(fmt, args, pos, nxt) ==
    IF pos > Len(fmt) THEN <<>>
    ELSE LET pc_ == fmt[pos] IN
         CASE pc_.p = "lit" -> pc_.s \o Format(fmt, args, pos + 1, nxt)
           [] pc_.p = "next" ->
                Display(args[nxt + 1]) \o Format(fmt, args, pos + 1, nxt + 1)
           [] pc_.p = "nextdbg" ->
                Debug(args[nxt + 1]) \o Format(fmt, args, pos + 1, nxt + 1)
           [] pc_.p = "idx" ->
                Display(args[pc_.i + 1]) \o Format(fmt, args, pos + 1, nxt)

\* concat!(stringify!($field_name),":{:?} ") for every declared field
RECURSIVE DebugFields(_, _)
DebugFields(fields, i) ==
    IF i > Len(fields) THEN <<>>
    ELSE <<Lit(<<fields[i].name, ":">>), NextDbg, Lit(<<" ">>)>>
         \o DebugFields(fields, i + 1)

\* A Display that formats the message alone, without the "{}\n" in front.
DisplayErr_NoPrefix(e) ==
    Format(VariantDecl(e.type, e.var).message, <<e.info>> \o e.fields, 1, 0)

\* A Display that separates the location from the message by a space.
DisplayErr_NoNewline(e) ==
    Format(<<Next_, Lit(<<" ">>)>> \o VariantDecl(e.type, e.var).message,
           <<e.info>> \o e.fields, 1, 0)

\* define_error!: impl Display
\*   write!(f, concat!("{}\n",$message), error_info, $( $field_name ),* )
DisplayErr(e) ==
    Format(<<Next_, Lit(<<"\n">>)>> \o VariantDecl(e.type, e.var).message,
           <<e.info>> \o e.fields, 1, 0)

\* A Debug that writes the fields with {} instead of {:?}.
DebugErr_DisplayFields(e) ==
    Format(<<Next_, Lit(<<"\n">>), Lit(<<e.type>>), Lit(<<"::">>),
             Lit(<<e.var>>), Lit(<<" ">>)>>
           \o [i \in 1..(3 * Len(e.fields)) |->
                 IF i % 3 = 1
                 THEN Lit(<<VariantDecl(e.type, e.var).fields[(i + 2) \div 3].name, ":">>)
                 ELSE IF i % 3 = 2 THEN Next_ ELSE Lit(<<" ">>)],
           <<e.info>> \o e.fields, 1, 0)

\* define_error!: impl Debug
DebugErr(e) ==
    Format(<<Next_, Lit(<<"\n">>), Lit(<<e.type>>), Lit(<<"::">>),
             Lit(<<e.var>>), Lit(<<" ">>)>>
           \o DebugFields(VariantDecl(e.type, e.var).fields, 1),
           <<e.info>> \o e.fields, 1, 0)

\* Display of a value, by its type's impl (Box<T> forwards to T).
Display(v) ==
    CASE v.k = "info" -> ErrorInfo_fmt(v)
      [] v.k = "str" -> v.s
      [] v.k = "io" -> Io_display(v.code)
      [] v.k = "box" -> Display(v.v)
      [] v.k = "err" -> DisplayErr(v)

\* Debug of a value, by its type's impl (String is quoted, Box<T> forwards).
Debug(v) ==
    CASE v.k = "str" -> <<"\"">> \o v.s \o <<"\"">>
      [] v.k = "io" -> Io_debug(v.code)
      [] v.k = "box" -> Debug(v.v)
      [] v.k = "err" -> DebugErr(v)

\* ------------------------------------------------------------------ macros
\* ok!: Ok(()) without arguments, Ok(x) with one
ok(xs) == IF Len(xs) = 0 THEN Ok(UnitV) ELSE Ok(xs[1])

\* An err! that passes its arguments in reverse order.
err_ArgsReversed(site, error, args) ==
    Err(ErrV(error.type, error.var, error_info(site),
             [i \in 1..Len(args) |-> args[Len(args) + 1 - i]]))

\* err!: Err( $error( error_info!(), $( $arg, )* ) )
err(site, error, args) ==
    IF Len(args) = 0
    THEN Err(ErrV(error.type, error.var, error_info(site), <<>>))
    ELSE Err(ErrV(error.type, error.var, error_info(site), args))

\* create_err!: $error( error_info!(), $( $arg, )* )
create_err(site, error, args) ==
    IF Len(args) = 0
    THEN ErrV(error.type, error.var, error_info(site), <<>>)
    ELSE ErrV(error.type, error.var, error_info(site), args)

\* What a helper does to the enclosing function: it yields a value and the
\* function goes on, or the function returns a result.
Yield(v) == [ctl |-> "value", v |-> v]
Return(r) == [ctl |-> "return", v |-> r]

\* A try! that passes the extra arguments before the boxed error.
try_ArgsFirst(o, site, error, args) ==
    IF o.k = "Ok" THEN Yield(o.v)
    ELSE Return(Err(ErrV(error.type, error.var, error_info(site),
                         args \o <<BoxV(o.v)>>)))

\* try!: match $o { Ok(ok) => ok,
\*                  Err(e) => return Err($error(error_info!(), Box::new(e), args)) }
try(o, site, error, args) ==
    IF o.k = "Ok" THEN Yield(o.v)
    ELSE IF Len(args) = 0
         THEN Return(Err(ErrV(error.type, error.var, error_info(site),
                              <<BoxV(o.v)>>)))
         ELSE Return(Err(ErrV(error.type, error.var, error_info(site),
                              <<BoxV(o.v)>> \o args)))

\* impl_from_error!: the two forms declare a conversion edge.  The location
\* is the one of the impl_from_error! invocation.
impl_from_error(from_error, to_error, site) ==
    [from |-> from_error, to |-> to_error, variant |-> from_error,
     form |-> "default", site |-> site]
impl_from_error_variant(from_error, to_error, to_variant, site) ==
    [from |-> from_error, to |-> to_error, variant |-> to_variant,
     form |-> "variant", site |-> site]

\* A conversion that boxes the source error twice.
From_DoubleBox(edge, from_error) ==
    ErrV(edge.to, edge.variant, error_info(edge.site), <<BoxV(BoxV(from_error))>>)

\* A conversion that stamps its own location into the source error too.
From_Restamp(edge, from_error) ==
    ErrV(edge.to, edge.variant, error_info(edge.site),
         <<BoxV([from_error EXCEPT !.info = error_info(edge.site)])>>)

\* fn from(from_error) -> Self
\*   { $to_error::$variant(error_info!(), Box::new(from_error)) }
From(edge, from_error) ==
    ErrV(edge.to, edge.variant, error_info(edge.site), <<BoxV(from_error)>>)

\* get_error_info: every variant's arm returns its first field
get_error_info(e) == e.info

\* ------------------------------------------------------------ typing
\* The type of a value; the compiler accepts a constructor call only with
\* arguments of the declared field types.
RECURSIVE TypeOf(_)
TypeOf(v) ==
    CASE v.k = "str" -> TString
      [] v.k = "io" -> TIo
      [] v.k = "box" -> TBox(TypeOf(v.v))
      [] v.k = "err" -> <<v.type>>
      [] v.k = "unit" -> <<"()">>

FieldTypes(error) ==
    LET fs == VariantDecl(error.type, error.var).fields
    IN [i \in 1..Len(fs) |-> fs[i].type]

WellTyped(error, args) ==
    LET ts == FieldTypes(error)
    IN /\ Len(ts) = Len(args)
       /\ \A i \in 1..Len(ts) : TypeOf(args[i]) = ts[i]

\* ------------------------------------------------------------ inputs
ExampleFile == "examples/example.rs"
\* Call sites of the examples: try! in read_file, err! in read_arg and the
\* impl_from_error! declaration.
Sites ==
    { Site("example", ExampleFile, 54, 14),
      Site("example", ExampleFile, 39, 24) }
FromSite == Site("example", ExampleFile, 19, 1)

Strings == { StrV(<<"no_file.rs">>), StrV(<<".rs">>) }
IoErrors == { IoV("2"), IoV("13") }
\* results of a fallible expression of the standard library
ExprResults == { Ok(UnitV), Ok(StrV(<<"file">>)) } \cup { Err(e) : e \in IoErrors }

StrArgs(n) == [1..n -> Strings]

\* The conversion edges a program may declare over Decls.
Edges ==
    { impl_from_error("ReadFileError", "CommonError", FromSite),
      impl_from_error_variant("ReadFileError", "CommonError", "CanNotReadFile",
                              FromSite) }

\* ------------------------------------------------------------ state
VARIABLES
    pc,     \* where the enclosing function is: body, have, cont, returned
    res,    \* the result the function got from the expression or callee
    local,  \* the function's local variable
    ret,    \* what the function returned
    ran,    \* whether the statement after the helper was executed
    call,   \* the macro invocation the function executed last
    got,    \* what get_error_info returned last
    out,    \* the text printed last
    shown,  \* how it was printed: display, debug, none
    depth   \* how many callers the result was handed to

evars == <<pc, res, local, ret, ran, call, got, out, shown, depth>>

\* The state of the programs that use the guard helpers.
VARIABLES
    mtx,    \* the Mutex: who holds it, whether it is poisoned
    rw,     \* the RwLock: its writer, its readers, whether it is poisoned
    chan,   \* the channel: the messages in it, whether its receiver lives
    tpc,    \* where each thread is
    tcall,  \* the helper invocation each thread is at
    tret,   \* what each thread's function returned
    tguard, \* the guard each thread's function holds
    stdout, \* the lines printed
    form    \* which form of mutex_lock! main_function of lock.rs uses

gvars == <<mtx, rw, chan, tpc, tcall, tret, tguard, stdout, form>>
vars == <<evars, gvars>>

Threads == {"main", "child"}

\* Mutex::new(1u32) of lock.rs, and the bound thread_function compares the
\* guarded value with.
InitialValue == 1
PanicBelow == 10
\* The values the mutex may guard: the one of lock.rs, and one with which
\* thread_function does not panic.
Values == {InitialValue, PanicBelow}

\* The guard-helper programs at rest (while the error harness runs).
GIdle ==
    /\ mtx = [holder |-> "none", poisoned |-> FALSE, data |-> InitialValue]
    /\ rw = [writer |-> "none", readers |-> {}, poisoned |-> FALSE]
    /\ chan = [queue |-> <<>>, connected |-> TRUE]
    /\ tpc = [t \in Threads |-> "idle"]
    /\ tcall = [t \in Threads |-> NoVal]
    /\ tret = [t \in Threads |-> NoVal]
    /\ tguard = [t \in Threads |-> NoVal]
    /\ stdout = <<>>
    /\ form = 0

\* The error harness at rest (while the guard-helper programs run).
EIdle ==
    /\ pc = "idle"
    /\ res = NoVal
    /\ local = NoVal
    /\ ret = NoVal
    /\ ran = FALSE
    /\ call = [macro |-> "none"]
    /\ got = NoVal
    /\ out = <<>>
    /\ shown = "none"
    /\ depth = 0

NoCall == [macro |-> "none"]
Call(macro, site, error, args) ==
    [macro |-> macro, site |-> site, error |-> error, args |-> args]
CallFrom(edge) == [macro |-> "from", edge |-> edge]

Init ==
    /\ pc = "body"
    /\ res = NoVal
    /\ local = NoVal
    /\ ret = NoVal
    /\ ran = FALSE
    /\ call = NoCall
    /\ got = NoVal
    /\ out = <<>>
    /\ shown = "none"
    /\ depth = 0
    /\ GIdle

\* ------------------------------------------------------------ actions
AllStrings(error) == \A i \in 1..Len(FieldTypes(error)) : FieldTypes(error)[i] = TString

\* The arguments a program may give a constructor after `given`: what is
\* left of the declared fields must be Strings.
RestArgs(error, given) ==
    LET ts == FieldTypes(error) IN
    IF /\ Len(ts) >= Len(given)
       /\ \A i \in 1..Len(given) : TypeOf(given[i]) = ts[i]
       /\ \A i \in (Len(given) + 1)..Len(ts) : ts[i] = TString
    THEN { given \o a : a \in StrArgs(Len(ts) - Len(given)) }
    ELSE {}

\* let file = <a fallible expression of the standard library>
ExprEval(r) ==
    /\ pc = "body"
    /\ local = NoVal
    /\ pc' = "have"
    /\ res' = r
    /\ UNCHANGED <<local, ret, ran, call, got, out, shown, depth>>
    /\ UNCHANGED gvars

\* let error = Box::new(create_err!(E, args));
CreateErr(site, error, args) ==
    /\ pc = "body"
    /\ local = NoVal
    /\ local' = BoxV(create_err(site, error, args))
    /\ call' = Call("create_err", site, error, args)
    /\ UNCHANGED <<pc, res, ret, ran, got, out, shown, depth>>
    /\ UNCHANGED gvars

\* return err!(E, args), the arguments being Strings, after the local
\* error if there is one
ErrReturn(site, error, args) ==
    /\ pc = "body"
    /\ pc' = "returned"
    /\ ret' = err(site, error, args)
    /\ call' = Call("err", site, error, args)
    /\ UNCHANGED <<res, local, ran, got, out, shown, depth>>
    /\ UNCHANGED gvars

\* let x = try!(res, E, args);
TryStep(site, error, args) ==
    /\ pc = "have"
    /\ Len(FieldTypes(error)) = 1 + Len(args)
    /\ FieldTypes(error)[1][1] = "Box"
    /\ \A i \in 2..Len(FieldTypes(error)) : FieldTypes(error)[i] = TString
    /\ res.k = "Err" => WellTyped(error, <<BoxV(res.v)>> \o args)
    /\ LET r == try(res, site, error, args) IN
         IF r.ctl = "value"
         THEN /\ pc' = "cont"
              /\ local' = r.v
              /\ ret' = ret
         ELSE /\ pc' = "returned"
              /\ ret' = r.v
              /\ local' = local
    /\ call' = Call("try", site, error, args)
    /\ UNCHANGED <<res, ran, got, out, shown, depth>>
    /\ UNCHANGED gvars

\* let x = res?;  with the From impl of edge
QuestionFrom(edge) ==
    /\ pc = "have"
    /\ res.k = "Err" => (res.v.k = "err" /\ res.v.type = edge.from)
    /\ IF res.k = "Ok"
       THEN /\ pc' = "cont"
            /\ local' = res.v
            /\ ret' = ret
       ELSE /\ pc' = "returned"
            /\ ret' = Err(From(edge, res.v))
            /\ local' = local
    /\ call' = CallFrom(edge)
    /\ UNCHANGED <<res, ran, got, out, shown, depth>>
    /\ UNCHANGED gvars

\* let x = res?;  in a function that returns the same error type
QuestionSame ==
    /\ pc = "have"
    /\ res.k = "Err"
    /\ res.v.k = "err"
    /\ pc' = "returned"
    /\ ret' = Err(res.v)
    /\ call' = [macro |-> "same"]
    /\ UNCHANGED <<res, local, ran, got, out, shown, depth>>
    /\ UNCHANGED gvars

\* the statements after the helper, and ok!(x) at the end
Continue ==
    /\ pc = "cont"
    /\ ran' = TRUE
    /\ ret' = ok(<<local>>)
    /\ pc' = "returned"
    /\ UNCHANGED <<res, local, call, got, out, shown, depth>>
    /\ UNCHANGED gvars

\* the caller gets the function's result
ReturnToCaller ==
    /\ pc = "returned"
    /\ depth < MaxDepth
    /\ depth' = depth + 1
    /\ pc' = "have"
    /\ res' = ret
    /\ ret' = NoVal
    /\ local' = NoVal
    /\ ran' = FALSE
    /\ call' = NoCall
    /\ out' = <<>>
    /\ shown' = "none"
    /\ UNCHANGED got
    /\ UNCHANGED gvars

IsDeclaredErr(r) == r.k = "Err" /\ r.v.k = "err"

\* e.get_error_info()
GetErrorInfo ==
    /\ pc = "returned"
    /\ IsDeclaredErr(ret)
    /\ got' = get_error_info(ret.v)
    /\ UNCHANGED <<pc, res, local, ret, ran, call, out, shown, depth>>
    /\ UNCHANGED gvars

\* println!("{}", e)
PrintDisplay ==
    /\ pc = "returned"
    /\ IsDeclaredErr(ret)
    /\ out' = Display(ret.v)
    /\ shown' = "display"
    /\ UNCHANGED <<pc, res, local, ret, ran, call, got, depth>>
    /\ UNCHANGED gvars

\* println!("{:?}", e)
PrintDebug ==
    /\ pc = "returned"
    /\ IsDeclaredErr(ret)
    /\ out' = Debug(ret.v)
    /\ shown' = "debug"
    /\ UNCHANGED <<pc, res, local, ret, ran, call, got, depth>>
    /\ UNCHANGED gvars

Next ==
    \/ \E r \in ExprResults : ExprEval(r)
    \/ \E site \in Sites, error \in Paths :
         \E args \in RestArgs(error, <<>>) : CreateErr(site, error, args)
    \/ \E site \in Sites, error \in Paths :
         \E args \in RestArgs(error, IF local = NoVal THEN <<>> ELSE <<local>>) :
            ErrReturn(site, error, args)
    \/ \E site \in Sites, error \in Paths :
         \E n \in 0..1 : \E args \in StrArgs(n) : TryStep(site, error, args)
    \/ \E edge \in Edges : QuestionFrom(edge)
    \/ QuestionSame
    \/ Continue
    \/ ReturnToCaller
    \/ GetErrorInfo
    \/ PrintDisplay
    \/ PrintDebug

Spec == Init /\ [][Next]_vars

\* ------------------------------------------------- the guarded resources
\* std::sync::Mutex, RwLock and mpsc::Sender, as far as the helpers use them.
Guard(kind, t) == [k |-> "guard", of |-> kind, by |-> t]
PoisonError(g) == [k |-> "poison", v |-> g]
SendError(msg) == [k |-> "senderror", v |-> msg]

Acquired(state, result) == [blocked |-> FALSE, state |-> state, result |-> result]
Blocks(state) == [blocked |-> TRUE, state |-> state, result |-> NoVal]

\* Mutex::new(v)
Mutex_new(v) == [holder |-> "none", poisoned |-> FALSE, data |-> v]

\* lock(): waits while the mutex is held; then takes it, and hands the guard
\* out inside a PoisonError if the mutex is poisoned.
Mutex_lock(m, t) ==
    IF m.holder # "none" THEN Blocks(m)
    ELSE Acquired([m EXCEPT !.holder = t],
                  IF m.poisoned THEN Err(PoisonError(Guard("mutex", t)))
                  ELSE Ok(Guard("mutex", t)))

\* write(): waits while there is a writer or a reader.
RwLock_write(r, t) ==
    IF r.writer # "none" \/ r.readers # {} THEN Blocks(r)
    ELSE Acquired([r EXCEPT !.writer = t],
                  IF r.poisoned THEN Err(PoisonError(Guard("write", t)))
                  ELSE Ok(Guard("write", t)))

\* read(): waits while there is a writer.
RwLock_read(r, t) ==
    IF r.writer # "none" THEN Blocks(r)
    ELSE Acquired([r EXCEPT !.readers = @ \cup {t}],
                  IF r.poisoned THEN Err(PoisonError(Guard("read", t)))
                  ELSE Ok(Guard("read", t)))

\* send(): never waits; fails when the receiver is gone.
Sender_send(c, msg) ==
    IF c.connected THEN Acquired([c EXCEPT !.queue = Append(@, msg)], Ok(UnitV))
    ELSE Acquired(c, Err(SendError(msg)))

\* Dropping a guard releases the lock; a mutex guard or a write guard
\* dropped by a panicking thread poisons it.
MutexGuard_drop(m, panicking) ==
    [m EXCEPT !.holder = "none", !.poisoned = @ \/ panicking]
WriteGuard_drop(r, panicking) ==
    [r EXCEPT !.writer = "none", !.poisoned = @ \/ panicking]
ReadGuard_drop(r, t) == [r EXCEPT !.readers = @ \ {t}]

\* ------------------------------------------------------- the guard helpers
\* A helper invocation: its form (1 bare, 2 type, 3 type::variant,
\* 4 type::variant with arguments) and what the form names.
Invocation(helper, frm, type, var, args, site) ==
    [helper |-> helper, form |-> frm, type |-> type, var |-> var,
     args |-> args, site |-> site]

\* A mutex_lock! whose type-only form returns Error::Poisoned.
mutex_lock_TypeIgnored(r, inv) ==
    IF r.k = "Ok" THEN Yield(r.v)
    ELSE CASE inv.form \in {1, 2} -> Return(err(inv.site, Path("Error", "Poisoned"), <<>>))
           [] inv.form = 3 -> Return(err(inv.site, Path(inv.type, inv.var), <<>>))
           [] inv.form = 4 ->
                Return(Err(ErrV(inv.type, inv.var, error_info(inv.site), inv.args)))

\* A mutex_lock! that returns from the function with the guard it got.
mutex_lock_ReturnsGuard(r, inv) ==
    IF r.k = "Ok" THEN Return(Ok(r.v))
    ELSE CASE inv.form = 1 -> Return(err(inv.site, Path("Error", "Poisoned"), <<>>))
           [] inv.form = 2 -> Return(err(inv.site, Path(inv.type, "Poisoned"), <<>>))
           [] inv.form = 3 -> Return(err(inv.site, Path(inv.type, inv.var), <<>>))
           [] inv.form = 4 ->
                Return(Err(ErrV(inv.type, inv.var, error_info(inv.site), inv.args)))

\* mutex_lock!: match $mutex.lock() { Ok(guard) => guard, Err(_) => return .. }
mutex_lock(r, inv) ==
    IF r.k = "Ok" THEN Yield(r.v)
    ELSE CASE inv.form = 1 -> Return(err(inv.site, Path("Error", "Poisoned"), <<>>))
           [] inv.form = 2 -> Return(err(inv.site, Path(inv.type, "Poisoned"), <<>>))
           [] inv.form = 3 -> Return(err(inv.site, Path(inv.type, inv.var), <<>>))
           [] inv.form = 4 ->
                Return(Err(ErrV(inv.type, inv.var, error_info(inv.site), inv.args)))

\* rw_write!: match $rw.write() { Ok(guard) => guard, Err(_) => return .. }
rw_write(r, inv) ==
    IF r.k = "Ok" THEN Yield(r.v)
    ELSE CASE inv.form = 1 -> Return(err(inv.site, Path("Error", "Poisoned"), <<>>))
           [] inv.form = 2 -> Return(err(inv.site, Path(inv.type, "Poisoned"), <<>>))
           [] inv.form = 3 -> Return(err(inv.site, Path(inv.type, inv.var), <<>>))
           [] inv.form = 4 ->
                Return(Err(ErrV(inv.type, inv.var, error_info(inv.site), inv.args)))

\* rw_read!: match $rw.read() { Ok(guard) => guard, Err(_) => return .. }
rw_read(r, inv) ==
    IF r.k = "Ok" THEN Yield(r.v)
    ELSE CASE inv.form = 1 -> Return(err(inv.site, Path("Error", "Poisoned"), <<>>))
           [] inv.form = 2 -> Return(err(inv.site, Path(inv.type, "Poisoned"), <<>>))
           [] inv.form = 3 -> Return(err(inv.site, Path(inv.type, inv.var), <<>>))
           [] inv.form = 4 ->
                Return(Err(ErrV(inv.type, inv.var, error_info(inv.site), inv.args)))

\* channel_send!: if $channel.send( $message ).is_err() { return .. }
channel_send(r, inv) ==
    IF ~(r.k = "Err") THEN Yield(UnitV)
    ELSE CASE inv.form = 1 ->
                Return(err(inv.site, Path("Error", "BrockenChannel"), <<>>))
           [] inv.form = 2 ->
                Return(err(inv.site, Path(inv.type, "BrockenChannel"), <<>>))
           [] inv.form = 3 -> Return(err(inv.site, Path(inv.type, inv.var), <<>>))
           [] inv.form = 4 ->
                Return(Err(ErrV(inv.type, inv.var, error_info(inv.site), inv.args)))

\* ------------------------------------------- the guard-helper harness
\* Two threads, each running functions of the shape
\*     fn f() -> result![E] { let guard = helper!(..); ..; ok!() }
\* on one Mutex, one RwLock and one channel; a function may panic while it
\* holds its guard, and the receiver of the channel may go away.
Helpers == {"mutex_lock", "rw_write", "rw_read", "channel_send"}

\* The call site of each thread's helper (the two of examples/lock.rs).
SiteOf(t) ==
    IF t = "main" THEN Site("lock", "examples/lock.rs", 40, 21)
    ELSE Site("lock", "examples/lock.rs", 17, 15)

DefaultVariant(helper) ==
    IF helper = "channel_send" THEN "BrockenChannel" ELSE "Poisoned"

\* The invocations that compile: the variant a form names is declared, and
\* takes the arguments given.
Invocations(helper, t) ==
    { Invocation(helper, 1, "Error", DefaultVariant(helper), <<>>, SiteOf(t)) }
    \cup { Invocation(helper, 2, ty, DefaultVariant(helper), <<>>, SiteOf(t)) :
             ty \in {"Error", "HandlerError"} }
    \cup { Invocation(helper, 3, e.type, e.var, <<>>, SiteOf(t)) :
             e \in { x \in Paths : Len(FieldTypes(x)) = 0 } }
    \cup UNION { { Invocation(helper, 4, e.type, e.var, a, SiteOf(t)) :
                     a \in RestArgs(e, <<>>) } :
                 e \in { x \in Paths : Len(FieldTypes(x)) = 1 } }

Message == StrV(<<"job">>)

GuardInit ==
    /\ EIdle
    /\ mtx = [holder |-> "none", poisoned |-> FALSE, data |-> InitialValue]
    /\ rw = [writer |-> "none", readers |-> {}, poisoned |-> FALSE]
    /\ chan = [queue |-> <<>>, connected |-> TRUE]
    /\ tpc = [t \in Threads |-> "idle"]
    /\ tcall = [t \in Threads |-> NoVal]
    /\ tret = [t \in Threads |-> NoVal]
    /\ tguard = [t \in Threads |-> NoVal]
    /\ stdout = <<>>
    /\ form = 0

\* a thread calls a function and reaches its helper invocation
Begin(t, inv) ==
    /\ tpc[t] \in {"idle", "returned"}
    /\ inv.helper = "channel_send" => Len(chan.queue) < MaxQueue
    /\ tpc' = [tpc EXCEPT ![t] = "call"]
    /\ tcall' = [tcall EXCEPT ![t] = inv]
    /\ tret' = [tret EXCEPT ![t] = NoVal]
    /\ UNCHANGED <<mtx, rw, chan, tguard, stdout, form>>
    /\ UNCHANGED evars

\* What the function does after the helper's match: it goes on with the
\* value, or it returns the error (and what is left of the scrutinee, the
\* PoisonError with its guard, is dropped).
Outcome(t, c) ==
    IF c.ctl = "value"
    THEN /\ tpc' = [tpc EXCEPT ![t] = "cont"]
         /\ tguard' = [tguard EXCEPT ![t] = c.v]
         /\ tret' = tret
    ELSE /\ tpc' = [tpc EXCEPT ![t] = "returned"]
         /\ tguard' = tguard
         /\ tret' = [tret EXCEPT ![t] = c.v]

\* A mutex_lock! whose poisoned branch returns while the guard inside the
\* PoisonError stays alive.
MutexLockStep_GuardKept(t) ==
    /\ tpc[t] = "call"
    /\ tcall[t].helper = "mutex_lock"
    /\ LET p == Mutex_lock(mtx, t) IN
         /\ ~p.blocked
         /\ Outcome(t, mutex_lock(p.result, tcall[t]))
         /\ mtx' = p.state
    /\ UNCHANGED <<rw, chan, tcall, stdout, form>>
    /\ UNCHANGED evars

\* let guard = mutex_lock!(mutex, ..);
MutexLockStep(t) ==
    /\ tpc[t] = "call"
    /\ tcall[t].helper = "mutex_lock"
    /\ LET p == Mutex_lock(mtx, t) IN
         /\ ~p.blocked
         /\ LET c == mutex_lock(p.result, tcall[t]) IN
              /\ Outcome(t, c)
              /\ mtx' = IF c.ctl = "value" THEN p.state
                        ELSE MutexGuard_drop(p.state, FALSE)
    /\ UNCHANGED <<rw, chan, tcall, stdout, form>>
    /\ UNCHANGED evars

\* let guard = rw_write!(rw, ..);
RwWriteStep(t) ==
    /\ tpc[t] = "call"
    /\ tcall[t].helper = "rw_write"
    /\ LET p == RwLock_write(rw, t) IN
         /\ ~p.blocked
         /\ LET c == rw_write(p.result, tcall[t]) IN
              /\ Outcome(t, c)
              /\ rw' = IF c.ctl = "value" THEN p.state
                       ELSE WriteGuard_drop(p.state, FALSE)
    /\ UNCHANGED <<mtx, chan, tcall, stdout, form>>
    /\ UNCHANGED evars

\* let guard = rw_read!(rw, ..);
RwReadStep(t) ==
    /\ tpc[t] = "call"
    /\ tcall[t].helper = "rw_read"
    /\ LET p == RwLock_read(rw, t) IN
         /\ ~p.blocked
         /\ LET c == rw_read(p.result, tcall[t]) IN
              /\ Outcome(t, c)
              /\ rw' = IF c.ctl = "value" THEN p.state
                       ELSE ReadGuard_drop(p.state, t)
    /\ UNCHANGED <<mtx, chan, tcall, stdout, form>>
    /\ UNCHANGED evars

\* channel_send!(channel, message, ..);
ChannelSendStep(t) ==
    /\ tpc[t] = "call"
    /\ tcall[t].helper = "channel_send"
    /\ LET p == Sender_send(chan, Message) IN
         /\ ~p.blocked
         /\ Outcome(t, channel_send(p.result, tcall[t]))
         /\ chan' = p.state
    /\ UNCHANGED <<mtx, rw, tcall, stdout, form>>
    /\ UNCHANGED evars

\* The resources after thread t dropped the guard it holds.
DropsGuard(t, panicking) ==
    /\ mtx' = IF tguard[t] = Guard("mutex", t) THEN MutexGuard_drop(mtx, panicking)
              ELSE mtx
    /\ rw' = IF tguard[t] = Guard("write", t) THEN WriteGuard_drop(rw, panicking)
             ELSE IF tguard[t] = Guard("read", t) THEN ReadGuard_drop(rw, t)
             ELSE rw
    /\ tguard' = [tguard EXCEPT ![t] = NoVal]

\* the function ends with ok!(): its guard is dropped
Finish(t) ==
    /\ tpc[t] = "cont"
    /\ DropsGuard(t, FALSE)
    /\ tpc' = [tpc EXCEPT ![t] = "returned"]
    /\ tret' = [tret EXCEPT ![t] = ok(<<>>)]
    /\ UNCHANGED <<chan, tcall, stdout, form>>
    /\ UNCHANGED evars

\* the function panics while it holds its guard: unwinding drops the guard
Panic(t) ==
    /\ tpc[t] = "cont"
    /\ DropsGuard(t, TRUE)
    /\ tpc' = [tpc EXCEPT ![t] = "panicked"]
    /\ UNCHANGED <<chan, tcall, tret, stdout, form>>
    /\ UNCHANGED evars

\* the receiving thread takes a message
Receive ==
    /\ chan.connected
    /\ Len(chan.queue) > 0
    /\ chan' = [chan EXCEPT !.queue = Tail(@)]
    /\ UNCHANGED <<mtx, rw, tpc, tcall, tret, tguard, stdout, form>>
    /\ UNCHANGED evars

\* the receiving thread ends: the receiver is dropped
Disconnect ==
    /\ chan.connected
    /\ chan' = [chan EXCEPT !.connected = FALSE]
    /\ UNCHANGED <<mtx, rw, tpc, tcall, tret, tguard, stdout, form>>
    /\ UNCHANGED evars

GuardNext ==
    \/ \E t \in Threads, h \in Helpers : \E inv \in Invocations(h, t) : Begin(t, inv)
    \/ \E t \in Threads : MutexLockStep(t)
    \/ \E t \in Threads : RwWriteStep(t)
    \/ \E t \in Threads : RwReadStep(t)
    \/ \E t \in Threads : ChannelSendStep(t)
    \/ \E t \in Threads : Finish(t)
    \/ \E t \in Threads : Panic(t)
    \/ Receive
    \/ Disconnect

GuardSpec == GuardInit /\ [][GuardNext]_vars

\* ------------------------------------------------------------ claims
\* The error nested in e (the boxed declared error of its first field).
HasNested(e) ==
    /\ Len(e.fields) > 0
    /\ e.fields[1].k = "box"
    /\ e.fields[1].v.k = "err"
Nested(e) == Unbox(e.fields[1])

\* The chain of errors from e (first) to the original error (last).
RECURSIVE Chain(_)
Chain(e) == IF HasNested(e) THEN <<e>> \o Chain(Nested(e)) ELSE <<e>>

LocLine(e) == ErrorInfo_fmt(e.info) \o <<"\n">>

OccursAt(text, pat, i) ==
    /\ i + Len(pat) - 1 <= Len(text)
    /\ SubSeq(text, i, i + Len(pat) - 1) = pat

\* The template of a variant with its placeholders substituted: {i} is
\* argument i (0 the location, 1..N the declared fields), and the j-th {} is
\* the j-th declared field.
ImplicitUpTo(msg, pos) ==
    Cardinality({ q \in 1..pos : msg[q].p \in {"next", "nextdbg"} })

SubstPiece(msg, pos, info, fields) ==
    CASE msg[pos].p = "lit" -> msg[pos].s
      [] msg[pos].p = "idx" ->
           IF msg[pos].i = 0 THEN ErrorInfo_fmt(info) ELSE Display(fields[msg[pos].i])
      [] msg[pos].p = "next" -> Display(fields[ImplicitUpTo(msg, pos)])
      [] msg[pos].p = "nextdbg" -> Debug(fields[ImplicitUpTo(msg, pos)])

RECURSIVE SubstRange(_, _, _, _, _)
SubstRange(msg, from, to, info, fields) ==
    IF from > to THEN <<>>
    ELSE SubstPiece(msg, from, info, fields)
         \o SubstRange(msg, from + 1, to, info, fields)

Template(e) == VariantDecl(e.type, e.var).message

ExpectedDisplay(e) ==
    ErrorInfo_fmt(e.info) \o <<"\n">>
    \o SubstRange(Template(e), 1, Len(Template(e)), e.info, e.fields)

\* C1: the Display rendering of a declared error (a variant without fields
\* included) is its location, a newline, and its message template with
\* argument 0 the location and arguments 1..N the declared fields.
C1_DisplayExact ==
    shown = "display" => out = ExpectedDisplay(ret.v)

C1_Witness ==
    /\ shown = "display"
    /\ ret.v.var = "NoArguments"
    /\ out = <<"example", "/", ExampleFile, " ", "3", "9", ":", "2", "4", "\n",
               "no arguments">>

\* C2: try! on Ok yields the value and the function goes on (the statement
\* after it runs, no error is built); on Err the function returns
\* Err(E(location of the try!, Box(e), extra arguments in order)) and the
\* statement after the try! is not executed.
C2_TryPropagates ==
    call.macro = "try" =>
        IF res.k = "Ok"
        THEN /\ local = res.v
             /\ \/ pc = "cont" /\ ret = NoVal /\ ~ran
                \/ pc = "returned" /\ ran /\ ret = Ok(res.v)
        ELSE /\ pc = "returned"
             /\ ~ran
             /\ local = NoVal
             /\ ret.k = "Err"
             /\ ret.v.type = call.error.type
             /\ ret.v.var = call.error.var
             /\ ret.v.info = error_info(call.site)
             /\ ret.v.fields = <<BoxV(res.v)>> \o call.args

C2_Witness ==
    /\ call.macro = "try"
    /\ res = Err(IoV("2"))
    /\ pc = "returned"
    /\ ret.v.var = "ReadFileError"
    /\ Len(ret.v.fields) = 2

\* C3: a conversion declared with impl_from_error! (either form) yields the
\* matching variant of the destination type whose only field holds the
\* source error, unchanged, behind exactly one Box.
C3_FromPreserves ==
    (call.macro = "from" /\ res.k = "Err") =>
        /\ pc = "returned"
        /\ ret.k = "Err"
        /\ ret.v.type = call.edge.to
        /\ ret.v.var = (IF call.edge.form = "default" THEN call.edge.from
                        ELSE "CanNotReadFile")
        /\ Len(ret.v.fields) = 1
        /\ ret.v.fields[1].k = "box"
        /\ Unbox(ret.v.fields[1]) = res.v

C3_Witness ==
    /\ call.macro = "from"
    /\ call.edge.form = "variant"
    /\ res.k = "Err"
    /\ ret.v.var = "CanNotReadFile"
    /\ Nested(ret.v).var = "IOError"

\* The error a function holds: the one it returned, the one it got from its
\* callee, or the one it built into a local.
LiveErr ==
    IF pc = "returned" /\ IsDeclaredErr(ret) THEN ret.v
    ELSE IF pc = "have" /\ IsDeclaredErr(res) THEN res.v
    ELSE IF pc = "body" /\ local.k = "box" THEN local.v
    ELSE NoVal

Stamp(c) ==
    IF c.macro = "from" THEN error_info(c.edge.site) ELSE error_info(c.site)

\* C6: the location of an error is the one of the macro invocation that
\* built it, and no step changes it: get_error_info, printing and returning
\* leave the error as it is, while try!, err! around a local error and a
\* conversion put the error, unchanged, under a new outer record.
C6_LocationFixed ==
    [][ LET a == LiveErr
            b == LiveErr'
        IN /\ (a # NoVal /\ b # NoVal) =>
                 \/ b = a
                 \/ HasNested(b) /\ Nested(b) = a /\ b.info = Stamp(call')
           /\ (a = NoVal /\ b # NoVal) => b.info = Stamp(call')
           /\ (got' # got) => (a # NoVal /\ got' = a.info /\ b = a)
      ]_vars

C6_Witness ==
    /\ pc = "returned"
    /\ IsDeclaredErr(ret)
    /\ Len(Chain(ret.v)) = 3
    /\ got = ret.v.info
    /\ shown = "debug"
    /\ Chain(ret.v)[3].info # Chain(ret.v)[1].info

\* Whether text begins with the locations of es, each but the last followed
\* by a newline.
RECURSIVE LocLines(_, _)
LocLines(es, i) ==
    IF i > Len(es) THEN <<>>
    ELSE IF i = Len(es) THEN ErrorInfo_fmt(es[i].info)
    ELSE LocLine(es[i]) \o LocLines(es, i + 1)

Reverse(es) == [i \in 1..Len(es) |-> es[Len(es) + 1 - i]]

TakesFirst(msg, pos) ==
    \/ msg[pos].p = "idx" /\ msg[pos].i = 1
    \/ msg[pos].p \in {"next", "nextdbg"} /\ ImplicitUpTo(msg, pos) = 1
FirstTaker(msg) == CHOOSE k \in 1..Len(msg) :
    TakesFirst(msg, k) /\ \A j \in 1..(k - 1) : ~TakesFirst(msg, j)
TemplateBefore(e) ==
    SubstRange(Template(e), 1, FirstTaker(Template(e)) - 1, e.info, e.fields)

\* Where the rendering of the i-th error of the chain starts in the
\* rendering of the first.
RECURSIVE StartOf(_, _)
StartOf(es, i) ==
    IF i = 1 THEN 1
    ELSE StartOf(es, i - 1) + Len(LocLine(es[i - 1])) + Len(TemplateBefore(es[i - 1]))

C8_ErrIsCreateErr ==
    /\ (call.macro = "err" /\ pc = "returned") =>
          /\ ret = Err(create_err(call.site, call.error, call.args))
          /\ ret.v.info = error_info(call.site)
          /\ ret.v.fields = call.args
    /\ (call.macro = "create_err" /\ pc = "body") =>
          /\ err(call.site, call.error, call.args) = Err(Unbox(local))
          /\ Unbox(local).type = call.error.type
          /\ Unbox(local).var = call.error.var
          /\ Unbox(local).info = error_info(call.site)
          /\ Unbox(local).fields = call.args

C8_Witness ==
    /\ call.macro = "err"
    /\ pc = "returned"
    /\ ret.v.var = "IncorrectExtension"
    /\ ret.v.fields = <<StrV(<<"no_file.rs">>), StrV(<<".rs">>)>>

\* The Debug rendering of a declared error, piece by piece.
RECURSIVE FieldsDebug(_, _)
FieldsDebug(e, i) ==
    IF i > Len(e.fields) THEN <<>>
    ELSE <<VariantDecl(e.type, e.var).fields[i].name, ":">>
         \o Debug(e.fields[i]) \o <<" ">> \o FieldsDebug(e, i + 1)

\* C9: the Debug rendering is the location (and a newline), then the type
\* name and the variant name, then every declared field's debug form in
\* declared order (each labelled with the field's name); nothing of the
\* fields comes before the location.
C9_DebugExact ==
    shown = "debug" =>
        out = ErrorInfo_fmt(ret.v.info) \o <<"\n", ret.v.type, "::", ret.v.var, " ">>
              \o FieldsDebug(ret.v, 1)

C9_Witness ==
    /\ shown = "debug"
    /\ ret.v.var = "IncorrectExtension"
    /\ out = <<"example", "/", ExampleFile, " ", "3", "9", ":", "2", "4", "\n",
               "CommonError", "::", "IncorrectExtension", " ",
               "file_name", ":", "\"", "no_file.rs", "\"", " ",
               "extension", ":", "\"", ".rs", "\"", " ">>

\* ------------------------------------------------- examples/lock.rs
\* The mutex_lock! of main_function: the form of line 40, or one of the
\* three alternatives the comments above it give.
MainInvocation(frm) ==
    CASE frm = 1 -> Invocation("mutex_lock", 1, "Error", "Poisoned", <<>>, SiteOf("main"))
      [] frm = 2 -> Invocation("mutex_lock", 2, "Error", "Poisoned", <<>>, SiteOf("main"))
      [] frm = 3 -> Invocation("mutex_lock", 3, "Error", "Poisoned", <<>>, SiteOf("main"))
      [] frm = 4 -> Invocation("mutex_lock", 4, "Error", "PoisonedWithArgs",
                               <<StrV(<<"child">>)>>, SiteOf("main"))

\* mutex_lock!(common) of thread_function
ChildInvocation ==
    Invocation("mutex_lock", 1, "Error", "Poisoned", <<>>, SiteOf("child"))

LockInit ==
    /\ EIdle
    /\ mtx \in { Mutex_new(v) : v \in Values }
    /\ rw = [writer |-> "none", readers |-> {}, poisoned |-> FALSE]
    /\ chan = [queue |-> <<>>, connected |-> TRUE]
    /\ tpc = [t \in Threads |-> IF t = "main" THEN "spawn" ELSE "unborn"]
    /\ tcall = [t \in Threads |-> NoVal]
    /\ tret = [t \in Threads |-> NoVal]
    /\ tguard = [t \in Threads |-> NoVal]
    /\ stdout = <<>>
    /\ form \in 1..4

\* main_function: thread::spawn(|| thread_function(thread_common).unwrap())
Spawn ==
    /\ tpc["main"] = "spawn"
    /\ tpc' = [tpc EXCEPT !["main"] = "sleep", !["child"] = "call"]
    /\ tcall' = [tcall EXCEPT !["child"] = ChildInvocation]
    /\ UNCHANGED <<mtx, rw, chan, tret, tguard, stdout, form>>
    /\ UNCHANGED evars

\* main_function: thread::sleep(..) ends, whatever the child has done so
\* far, and main_function reaches its mutex_lock!
Sleep ==
    /\ tpc["main"] = "sleep"
    /\ tpc' = [tpc EXCEPT !["main"] = "call"]
    /\ tcall' = [tcall EXCEPT !["main"] = MainInvocation(form)]
    /\ UNCHANGED <<mtx, rw, chan, tret, tguard, stdout, form>>
    /\ UNCHANGED evars

\* a thread of lock.rs executes its mutex_lock! (the process is running)
LockStep(t) ==
    /\ tpc["main"] # "exit"
    /\ MutexLockStep(t)

\* thread_function: if *guard<10 { panic!("Panic"); }  ok!()
ChildCheck ==
    /\ tpc["main"] # "exit"
    /\ tpc["child"] = "cont"
    /\ IF mtx.data < PanicBelow
       THEN /\ DropsGuard("child", TRUE)
            /\ tpc' = [tpc EXCEPT !["child"] = "panicked"]
            /\ tret' = tret
       ELSE /\ DropsGuard("child", FALSE)
            /\ tpc' = [tpc EXCEPT !["child"] = "returned"]
            /\ tret' = [tret EXCEPT !["child"] = ok(<<>>)]
    /\ UNCHANGED <<chan, tcall, stdout, form>>
    /\ UNCHANGED evars

\* the child's closure: .unwrap() of what thread_function returned
ChildUnwrap ==
    /\ tpc["main"] # "exit"
    /\ tpc["child"] = "returned"
    /\ tpc' = [tpc EXCEPT !["child"] = IF tret["child"].k = "Err" THEN "panicked"
                                     ELSE "finished"]
    /\ UNCHANGED <<mtx, rw, chan, tcall, tret, tguard, stdout, form>>
    /\ UNCHANGED evars

\* main_function: println!("Value is {}",*value_guard);
PrintValue ==
    /\ tpc["main"] = "cont"
    /\ stdout' = Append(stdout, <<"Value is ">> \o Dec(mtx.data))
    /\ tpc' = [tpc EXCEPT !["main"] = "join"]
    /\ UNCHANGED <<mtx, rw, chan, tcall, tret, tguard, form>>
    /\ UNCHANGED evars

\* main_function: join_handle.join(); waits until the child thread is over
Join ==
    /\ tpc["main"] = "join"
    /\ tpc["child"] \in {"panicked", "finished"}
    /\ tpc' = [tpc EXCEPT !["main"] = "ok"]
    /\ UNCHANGED <<mtx, rw, chan, tcall, tret, tguard, stdout, form>>
    /\ UNCHANGED evars

\* main_function: ok!()  (value_guard is dropped)
ReturnOk ==
    /\ tpc["main"] = "ok"
    /\ DropsGuard("main", FALSE)
    /\ tpc' = [tpc EXCEPT !["main"] = "returned"]
    /\ tret' = [tret EXCEPT !["main"] = ok(<<>>)]
    /\ UNCHANGED <<chan, tcall, stdout, form>>
    /\ UNCHANGED evars

\* main: match main_function() { Ok(_) => {}, Err(e) => println!(..) }
Main ==
    /\ tpc["main"] = "returned"
    /\ stdout' = IF tret["main"].k = "Err"
                 THEN Append(stdout,
                             <<"The problem has occurred, we must solve it", "\n">>
                             \o Display(tret["main"].v))
                 ELSE stdout
    /\ tpc' = [tpc EXCEPT !["main"] = "exit"]
    /\ UNCHANGED <<mtx, rw, chan, tcall, tret, tguard, form>>
    /\ UNCHANGED evars

LockNext ==
    \/ Spawn
    \/ Sleep
    \/ \E t \in Threads : LockStep(t)
    \/ ChildCheck
    \/ ChildUnwrap
    \/ PrintValue
    \/ Join
    \/ ReturnOk
    \/ Main

LockSpec == LockInit /\ [][LockNext]_vars

\* ------------------------------------------------ claims on the helpers
\* Whether the resource of an invocation is poisoned / disconnected.
Failing(inv) ==
    CASE inv.helper = "mutex_lock" -> mtx.poisoned
      [] inv.helper \in {"rw_write", "rw_read"} -> rw.poisoned
      [] inv.helper = "channel_send" -> ~chan.connected

\* The error an invocation selects, form by form.
Selected(inv) ==
    LET dflt == IF inv.helper = "channel_send" THEN "BrockenChannel" ELSE "Poisoned"
    IN CASE inv.form = 1 -> ErrV("Error", dflt, error_info(inv.site), <<>>)
         [] inv.form = 2 -> ErrV(inv.type, dflt, error_info(inv.site), <<>>)
         [] inv.form = 3 -> ErrV(inv.type, inv.var, error_info(inv.site), <<>>)
         [] inv.form = 4 -> ErrV(inv.type, inv.var, error_info(inv.site), inv.args)

\* The primitive a helper wraps, called directly by thread t.
Primitive(t) ==
    CASE tcall[t].helper = "mutex_lock" -> Mutex_lock(mtx, t)
      [] tcall[t].helper = "rw_write" -> RwLock_write(rw, t)
      [] tcall[t].helper = "rw_read" -> RwLock_read(rw, t)
      [] tcall[t].helper = "channel_send" -> Sender_send(chan, Message)

HelperStep(t) ==
    MutexLockStep(t) \/ RwWriteStep(t) \/ RwReadStep(t) \/ ChannelSendStep(t)

\* C4: a helper on a poisoned lock or a disconnected channel makes the
\* function return Err of the variant its form selects, stamped with the
\* location of the invocation; the thread does not panic.
C4_FailureReturnsSelected ==
    [][ \A t \in Threads :
          (tpc[t] = "call" /\ tpc'[t] # "call" /\ Failing(tcall[t])) =>
              /\ tpc'[t] = "returned"
              /\ tret'[t] = Err(Selected(tcall[t]))
              /\ tguard'[t] = NoVal
      ]_vars

C4_Witness ==
    /\ tpc["child"] = "panicked"
    /\ rw.poisoned
    /\ ~chan.connected
    /\ tpc["main"] = "returned"
    /\ tcall["main"].helper = "rw_read"
    /\ tcall["main"].form = 2
    /\ tcall["main"].type = "HandlerError"
    /\ tret["main"] = Err(ErrV("HandlerError", "Poisoned",
                               error_info(SiteOf("main")), <<>>))
    /\ rw.readers = {}

\* C5: a helper on a lock that is not poisoned, or on a connected channel,
\* does what the primitive called directly does: the resource ends in the
\* state the primitive leaves, the function holds the guard the primitive
\* gave and goes on past the helper, no error is returned; and the helper
\* can take its step exactly when the primitive does not wait.
C5_SuccessIsPrimitive ==
    /\ [][ \A t \in Threads :
             (tpc[t] = "call" /\ tpc'[t] # "call" /\ ~Failing(tcall[t])) =>
                 LET p == Primitive(t) IN
                 /\ ~p.blocked
                 /\ tpc'[t] = "cont"
                 /\ tret'[t] = NoVal
                 /\ tguard'[t] = p.result.v
                 /\ CASE tcall[t].helper = "mutex_lock" -> mtx' = p.state
                      [] tcall[t].helper \in {"rw_write", "rw_read"} -> rw' = p.state
                      [] tcall[t].helper = "channel_send" -> chan' = p.state
         ]_vars
    /\ [](\A t \in Threads :
             tpc[t] = "call" => (ENABLED HelperStep(t) <=> ~Primitive(t).blocked))

C5_Witness ==
    /\ tpc["child"] = "panicked"
    /\ mtx.poisoned
    /\ tpc["main"] = "cont"
    /\ tcall["main"].helper = "rw_write"
    /\ tguard["main"] = Guard("write", "main")
    /\ rw = [writer |-> "main", readers |-> {}, poisoned |-> FALSE]
    /\ tret["main"] = NoVal

\* ------------------------------------------------ claims on lock.rs
\* C10: in lock.rs (the mutex made with 1, the mutex_lock! of line 40) main_function never prints the
\* guarded value, and what it returns is Err(Error::PoisonedWithArgs) with
\* "child", stamped at line 40.
C10_MainGetsPoisoned ==
    (form = 4 /\ mtx.data = InitialValue) =>
        /\ \A i \in 1..Len(stdout) : stdout[i][1] # "Value is "
        /\ tpc["main"] \in {"returned", "exit"} =>
              tret["main"] = Err(ErrV("Error", "PoisonedWithArgs",
                                      error_info(SiteOf("main")),
                                      <<StrV(<<"child">>)>>))

\* main_function waits in join_handle.join() with value_guard alive, and
\* thread_function waits in the lock() of its mutex_lock!(common).
JoinWaitsForLocker ==
    /\ tpc["main"] = "join"
    /\ tguard["main"] = Guard("mutex", "main")
    /\ mtx.holder = "main"
    /\ tpc["child"] = "call"
    /\ Mutex_lock(mtx, "child").blocked

\* C11: in lock.rs (the mutex made with 1, the mutex_lock! of line 40) there
\* is no reachable state in which main_function waits in join_handle.join()
\* while the child thread waits for the mutex whose guard main_function
\* still holds, so that main_function always gets to return.
C11_NoJoinWhileChildWaits ==
    (form = 4 /\ mtx.data = InitialValue) => ~JoinWaitsForLocker

\* ------------------------------------- claims on the poisoned branch
LockHelpers == {"mutex_lock", "rw_write", "rw_read"}

\* Thread t holds the mutex or the RwLock (as the writer or as a reader).
Holds(t) == mtx.holder = t \/ rw.writer = t \/ t \in rw.readers

\* The primitive of helper h called by thread u.
Attempt(h, u) ==
    CASE h = "mutex_lock" -> Mutex_lock(mtx, u)
      [] h = "rw_write" -> RwLock_write(rw, u)
      [] h = "rw_read" -> RwLock_read(rw, u)

\* C12: when mutex_lock!, rw_write! or rw_read! takes the poisoned branch,
\* the function returns the error and the thread holds no lock afterwards:
\* the lock is left as it was before the attempt, and the same acquisition
\* tried next by any thread does not wait but gets the poison signal again.
\* A thread whose function has returned an error never holds a lock.
C12_PoisonedBranchReleases ==
    /\ [][ \A t \in Threads :
             (/\ tpc[t] = "call"
              /\ tpc'[t] # "call"
              /\ tcall[t].helper \in LockHelpers
              /\ Failing(tcall[t])) =>
                 /\ tpc'[t] = "returned"
                 /\ tret'[t].k = "Err"
                 /\ ~Holds(t)'
                 /\ mtx' = mtx
                 /\ rw' = rw
                 /\ \A u \in Threads :
                      LET a == Attempt(tcall[t].helper, u)' IN
                      /\ ~a.blocked
                      /\ a.result.k = "Err"
                      /\ a.result.v.k = "poison"
         ]_vars
    /\ [](\A t \in Threads :
             (tpc[t] = "returned" /\ tret[t].k = "Err") => ~Holds(t))

\* The child panicked with the mutex guard; main's mutex_lock! then returned
\* the error, the mutex is free and still poisoned.
C12_Witness ==
    /\ tpc["child"] = "panicked"
    /\ tcall["child"].helper = "mutex_lock"
    /\ mtx.poisoned
    /\ tpc["main"] = "returned"
    /\ tcall["main"].helper = "mutex_lock"
    /\ tcall["main"].form = 1
    /\ tret["main"].k = "Err"
    /\ tguard["main"] = NoVal
    /\ mtx.holder = "none"
    /\ ~Mutex_lock(mtx, "main").blocked
    /\ Mutex_lock(mtx, "main").result.k = "Err"

====
